---- MODULE Spec2Model ----
(***************************************************************************)
(* Model of yahoo_finance_news_scraper_v3.py: the link collector           *)
(* (get_listing), the article assembler (fetch_article), the batch driver  *)
(* (main) and the summarizer (Summarizer.summarize / _extractive).         *)
(*                                                                         *)
(* Optional values (Python None) are modelled as sequences of length <= 1: *)
(* None is <<>> and a present value x is <<x>>.                            *)
(***************************************************************************)
EXTENDS Integers, Sequences, FiniteSets, TLC

None == <<>>
Some(x) == <<x>>
IsNone(o) == o = <<>>

(***************************************************************************)
(* Bounds of the model.                                                    *)
(***************************************************************************)
\* longest list of anchors on one listing page
MaxPageLinks == 2
\* longest list of topics on the command line
MaxTopics == 2
\* longest list of URLs handed to the article loop on its own
MaxBatch == 3
\* most words of a short text handed to summarize
MaxWords == 4
\* most words that follow the 999 filler words of a long text
MaxLongTail == 2
\* most paragraphs of an article page, the run of filler paragraphs aside
MaxDocParas == 2

(***************************************************************************)
(* Listing pages.  A page is the sequence of href attributes of its        *)
(* anchors in document order.  Every href is described by what the tests   *)
(* of get_listing look at.                                                 *)
(***************************************************************************)
Hrefs ==
    { "/news/a",
      "https://finance.yahoo.com/news/a",
      "/quote/AAPL",
      "/news/c#comments",
      "news/d",
      "https://evil.example/news/finance.yahoo.com",
      "https://other.example/news/e" }

\* the hrefs of the listing pages served while the whole driver runs
DriverHrefs == { "/news/a", "/news/b" }

\* "/news/" in href
HasNewsMarker(h) == h # "/quote/AAPL"

\* any(x in href for x in ["#", "javascript:", "subscribe"])
HasExcluded(h) == h = "/news/c#comments"

\* href.startswith("/")
StartsWithSlash(h) == h \in { "/news/a", "/news/b", "/quote/AAPL", "/news/c#comments" }

\* href.startswith("http")
StartsWithHttp(h) ==
    h \in { "https://finance.yahoo.com/news/a",
            "https://evil.example/news/finance.yahoo.com",
            "https://other.example/news/e" }

\* requests.compat.urljoin(url, href) for an href that starts with "/":
\* every topic URL has the origin https://finance.yahoo.com
UrlJoin(h) ==
    CASE h = "/news/a" -> "https://finance.yahoo.com/news/a"
      [] h = "/news/b" -> "https://finance.yahoo.com/news/b"
      [] h = "/quote/AAPL" -> "https://finance.yahoo.com/quote/AAPL"
      [] h = "/news/c#comments" -> "https://finance.yahoo.com/news/c#comments"
      [] OTHER -> h

\* "finance.yahoo.com" in full
ContainsDomain(full) == full # "https://other.example/news/e"

\* the host of an absolute URL
HostOf(full) ==
    CASE full = "https://evil.example/news/finance.yahoo.com" -> "evil.example"
      [] full = "https://other.example/news/e" -> "other.example"
      [] OTHER -> "finance.yahoo.com"

\* the sequences over S of length at most n
SeqsUpTo(S, n) == UNION { [1..k -> S] : k \in 0..n }

Pages == SeqsUpTo(Hrefs, MaxPageLinks)
DriverPages == SeqsUpTo(DriverHrefs, MaxPageLinks)

\* the elements of a sequence
Range(s) == { s[i] : i \in DOMAIN s }

(***************************************************************************)
(* get_listing                                                             *)
(***************************************************************************)
\* the safety limit used when no page cap is given
DefaultMaxAttempts == 100

\* max_attempts = max_pages if max_pages else 100
MaxAttempts(mp) == IF IsNone(mp) \/ mp[1] = 0 THEN DefaultMaxAttempts ELSE mp[1]

\* get_listing without the "full not in seen" test
RECURSIVE ScanAnchors_NoDedup(_, _, _, _)
ScanAnchors_NoDedup(p, i, sn, pl) ==
    IF i > Len(p) THEN <<sn, pl>>
    ELSE LET href == p[i] IN
         IF ~HasNewsMarker(href) \/ HasExcluded(href)
         THEN ScanAnchors_NoDedup(p, i + 1, sn, pl)
         ELSE IF ~StartsWithSlash(href) /\ ~StartsWithHttp(href)
         THEN ScanAnchors_NoDedup(p, i + 1, sn, pl)
         ELSE LET full == IF StartsWithSlash(href) THEN UrlJoin(href) ELSE href IN
              IF ContainsDomain(full)
              THEN ScanAnchors_NoDedup(p, i + 1, sn \cup {full}, Append(pl, full))
              ELSE ScanAnchors_NoDedup(p, i + 1, sn, pl)

\* the body of "for a in soup.find_all('a', href=True)" from the anchor i of
\* page p on, with seen = sn and page_links = pl: the final <<seen, page_links>>
RECURSIVE ScanAnchors(_, _, _, _)
ScanAnchors(p, i, sn, pl) ==
    IF i > Len(p) THEN <<sn, pl>>
    ELSE LET href == p[i] IN
         IF ~HasNewsMarker(href) \/ HasExcluded(href)
         THEN ScanAnchors(p, i + 1, sn, pl)
         ELSE IF ~StartsWithSlash(href) /\ ~StartsWithHttp(href)
         THEN ScanAnchors(p, i + 1, sn, pl)
         ELSE LET full == IF StartsWithSlash(href) THEN UrlJoin(href) ELSE href IN
              IF full \notin sn /\ ContainsDomain(full)
              THEN ScanAnchors(p, i + 1, sn \cup {full}, Append(pl, full))
              ELSE ScanAnchors(p, i + 1, sn, pl)

VARIABLES
    \* get_listing: its argument, its locals and where it stands
    max_pages, links, seen, page, lst,
    \* get_listing, observed: number of page fetches issued, the last thing
    \* it did ("none", "fetch" or "sleep"), and per fetched page the
    \* article links the page carried (None for a failed fetch)
    fetches, lastEvt, served,
    \* main: the arguments, the loop positions and the batch
    topics, count, pc, ti, todo, ai, all_items, clock,
    \* main, observed: the list get_listing returned for each topic so far,
    \* the first topic (1-based, 0: none) whose listing hit a failed page,
    \* what each fetch_article call was given, and the batches written
    collected, failedAt, artLog, written,
    \* Summarizer: self.method and whether self.pipeline is set
    s_method, s_pipeline,
    \* one summarize call: its text argument, where it stands ("called" or
    \* "returned"), what it returned, and, observed, what the backend did
    \* ("none" when it was not invoked)
    s_text, s_pc, s_result, s_backend,
    \* one extract_body call: the page it was given, the soup as the call has
    \* left it so far, the selector the loop stands at, where the call stands
    \* ("for_selector" or "returned"), what it returned, and, observed, the
    \* paragraphs the fallback collected (None when it was not reached)
    e_doc, e_soup, e_i, e_pc, e_result, e_fallback

listVars == <<max_pages, links, seen, page, lst, fetches, lastEvt, served>>
mainVars == <<topics, count, pc, ti, todo, ai, all_items, clock, collected, failedAt,
              artLog, written>>
sumVars == <<s_method, s_pipeline, s_text, s_pc, s_result, s_backend>>
extVars == <<e_doc, e_soup, e_i, e_pc, e_result, e_fallback>>
vars == <<max_pages, links, seen, page, lst, fetches, lastEvt, served,
          topics, count, pc, ti, todo, ai, all_items, clock, collected, failedAt,
          artLog, written,
          s_method, s_pipeline, s_text, s_pc, s_result, s_backend,
          e_doc, e_soup, e_i, e_pc, e_result, e_fallback>>

\* what one anchor contributes when nothing has been seen yet: the article
\* URL it points to, or None when the anchor is not an article link
ArticleUrlOf(href) == LET r == ScanAnchors(<<href>>, 1, {}, <<>>)[2] IN
                      IF r = <<>> THEN None ELSE Some(r[1])

\* the article links a page carries, in document order, repeats included
RECURSIVE Candidates(_)
Candidates(p) ==
    IF p = <<>> THEN <<>>
    ELSE ArticleUrlOf(Head(p)) \o Candidates(Tail(p))

\* no summarize call is observed
SummarizerIdle ==
    /\ s_method = "extractive"
    /\ s_pipeline = FALSE
    /\ s_text = None
    /\ s_pc = "idle"
    /\ s_result = None
    /\ s_backend = "none"

\* no extract_body call is observed
ExtractorIdle ==
    /\ e_doc = None
    /\ e_soup = None
    /\ e_i = 0
    /\ e_pc = "idle"
    /\ e_result = None
    /\ e_fallback = None

\* links = [], seen = set(), page = 0
ListingEntry ==
    /\ links' = <<>>
    /\ seen' = {}
    /\ page' = 0
    /\ lst' = "loop"
    /\ fetches' = 0
    /\ lastEvt' = "none"
    /\ served' = <<>>

\* get_listing without the break on a page without new links
PageFetched_NoStop(p) ==
    /\ lst = "loop"
    /\ page < MaxAttempts(max_pages)
    /\ fetches' = fetches + 1
    /\ LET r == ScanAnchors(p, 1, seen, <<>>) IN
       /\ seen' = r[1]
       /\ links' = links \o r[2]
       /\ page' = page + 1
       /\ lastEvt' = "sleep"
       /\ lst' = "loop"
    /\ UNCHANGED max_pages

\* one iteration of the while loop whose requests.get succeeds and returns
\* the page p
PageFetched(p) ==
    /\ lst = "loop"
    /\ page < MaxAttempts(max_pages)
    /\ fetches' = fetches + 1
    /\ LET r == ScanAnchors(p, 1, seen, <<>>) IN
       /\ seen' = r[1]
       /\ IF r[2] = <<>>
          THEN /\ lst' = "break"
               /\ lastEvt' = "fetch"
               /\ UNCHANGED <<links, page>>
          ELSE /\ links' = links \o r[2]
               /\ page' = page + 1
               /\ lastEvt' = "sleep"
               /\ lst' = "loop"
    /\ UNCHANGED max_pages

\* get_listing with an except clause that gives up the links gathered
PageFailed_DropsLinks ==
    /\ lst = "loop"
    /\ page < MaxAttempts(max_pages)
    /\ fetches' = fetches + 1
    /\ lastEvt' = "fetch"
    /\ lst' = "except"
    /\ links' = <<>>
    /\ UNCHANGED <<max_pages, seen, page>>

\* one iteration of the while loop whose requests.get or raise_for_status
\* raises: the except clause breaks out of the loop
PageFailed ==
    /\ lst = "loop"
    /\ page < MaxAttempts(max_pages)
    /\ fetches' = fetches + 1
    /\ lastEvt' = "fetch"
    /\ lst' = "except"
    /\ UNCHANGED <<max_pages, links, seen, page>>

\* the loop is left (by its condition or by a break): return links
ListingReturns ==
    /\ \/ lst \in {"break", "except"}
       \/ lst = "loop" /\ ~(page < MaxAttempts(max_pages))
    /\ lst' = "returned"
    /\ UNCHANGED <<max_pages, links, seen, page, fetches, lastEvt>>

(***************************************************************************)
(* fetch_article                                                           *)
(*                                                                         *)
(* An article page is described by what fetch_article reads from it: the   *)
(* text of its h1, the content of its og:title and description meta tags,  *)
(* the datetime of its time tag (None when the tag is missing) and what    *)
(* extract_body returns for it.                                            *)
(***************************************************************************)
FullPage == [h1 |-> Some("Headline"), og |-> Some("OG title"),
             desc |-> Some("Description"), time |-> Some("2024-01-01T00:00"),
             body |-> Some("Body text")]
OgPage == [h1 |-> Some(""), og |-> Some("OG title"),
           desc |-> None, time |-> None, body |-> None]

ArticlePages == { FullPage, OgPage }

\* the statements of the try block, in order; RaiseAt names the first one
\* that raises, "never" when none does
Steps == << "request", "parse", "title", "description", "published", "body", "summarize" >>
RaiseAt == Range(Steps) \cup { "never" }
StepNo(st) == IF st = "never" THEN Len(Steps) + 1
              ELSE CHOOSE i \in DOMAIN Steps : Steps[i] = st

\* what the summarizer returns for a body, seen from fetch_article
SummaryOf(body) == << "summary of", body >>

\* "x if x else None" and friends: an empty string is falsy
Truthy(o) == ~IsNone(o) /\ o[1] # ""

\* the statement r is reached and raises: summarize is only called for a
\* page with a body
Raises(pg, r) == r # "never" /\ (r = "summarize" => Truthy(pg.body))

\* fetch_article that asks for a summary whether or not a body was found
fetch_article_SummarizesAnyBody(url, pg, r, now) ==
    LET out0 == [url |-> url, title |-> None, description |-> None,
                 published |-> None, content |-> None, summary |-> None,
                 scraped_at |-> now, error |-> None]
        title == IF Truthy(pg.h1) THEN pg.h1 ELSE pg.og
        out1 == IF StepNo(r) > 3 THEN [out0 EXCEPT !.title = title] ELSE out0
        out2 == IF StepNo(r) > 4 THEN [out1 EXCEPT !.description = pg.desc] ELSE out1
        out3 == IF StepNo(r) > 5 THEN [out2 EXCEPT !.published = pg.time] ELSE out2
        hasBody == StepNo(r) > 6 /\ Truthy(pg.body)
        out4 == IF hasBody THEN [out3 EXCEPT !.content = pg.body] ELSE out3
        out5 == IF StepNo(r) > 7
                THEN [out4 EXCEPT !.summary = Some(SummaryOf(pg.body))] ELSE out4
    IN  IF Raises(pg, r) THEN [out5 EXCEPT !.error = Some(r)] ELSE out5

\* fetch_article(url, summarizer) when the server answers with the page pg,
\* the statement r of the try block raises (r = "never": none does) and the
\* clock reads now
fetch_article(url, pg, r, now) ==
    LET out0 == [url |-> url, title |-> None, description |-> None,
                 published |-> None, content |-> None, summary |-> None,
                 scraped_at |-> now, error |-> None]
        \* out["title"] = h1.get_text(strip=True) if h1 else None; if not
        \* out["title"]: out["title"] = og.get("content", "").strip() if og else None
        title == IF Truthy(pg.h1) THEN pg.h1 ELSE pg.og
        out1 == IF StepNo(r) > 3 THEN [out0 EXCEPT !.title = title] ELSE out0
        out2 == IF StepNo(r) > 4 THEN [out1 EXCEPT !.description = pg.desc] ELSE out1
        out3 == IF StepNo(r) > 5 THEN [out2 EXCEPT !.published = pg.time] ELSE out2
        \* if body: out["content"] = body; out["summary"] = summarizer.summarize(body)
        hasBody == StepNo(r) > 6 /\ Truthy(pg.body)
        out4 == IF hasBody THEN [out3 EXCEPT !.content = pg.body] ELSE out3
        out5 == IF hasBody /\ StepNo(r) > 7
                THEN [out4 EXCEPT !.summary = Some(SummaryOf(pg.body[1]))] ELSE out4
    IN  \* except Exception as e: out["error"] = str(e)
        IF Raises(pg, r) THEN [out5 EXCEPT !.error = Some(r)] ELSE out5

\* an article loop that a failed fetch ends
ArticleFetched_AbortsOnFailure(pg, r) ==
    /\ pc = "for_article"
    /\ ai < Len(todo)
    /\ IF Raises(pg, r)
       THEN /\ ai' = Len(todo)
            /\ UNCHANGED all_items
       ELSE /\ ai' = ai + 1
            /\ all_items' = Append(all_items, fetch_article(todo[ai + 1], pg, r, clock))
    /\ clock' = clock + 1
    /\ artLog' = Append(artLog, [url |-> todo[ai + 1], page |-> pg, raise |-> r])
    /\ UNCHANGED <<topics, count, pc, ti, todo, collected, failedAt, written>>

\* one iteration of "for i, link in enumerate(articles_to_fetch, 1)"
ArticleFetched(pg, r) ==
    /\ pc = "for_article"
    /\ ai < Len(todo)
    /\ all_items' = Append(all_items, fetch_article(todo[ai + 1], pg, r, clock))
    /\ ai' = ai + 1
    /\ clock' = clock + 1
    /\ artLog' = Append(artLog, [url |-> todo[ai + 1], page |-> pg, raise |-> r])
    /\ UNCHANGED <<topics, count, pc, ti, todo, collected, failedAt, written>>

(***************************************************************************)
(* main                                                                    *)
(***************************************************************************)
\* the keys of TOPIC_URLS the model uses; all of them live on one origin
Topics == { "latest-news", "tech" }

\* --topics: nargs="+", so at least one topic; a topic may be named twice
TopicArgs == UNION { [1..k -> Topics] : k \in 1..MaxTopics }

\* --count: an integer, None by default
CountArgs == { None, Some(0), Some(1) }

\* --max-pages while the whole driver runs
DriverMaxPagesArgs == { None, Some(1) }

\* the article pages and failures served while the whole driver runs
DriverArticlePages == { FullPage }
DriverRaiseAt == { "never", "request" }

\* a slice that keeps one element too many
Slice_OneTooMany(s, n) ==
    SubSeq(s, 1, IF n + 1 < Len(s) THEN n + 1 ELSE Len(s))

\* the Python slice s[:n]
Slice(s, n) ==
    LET stop == IF n >= 0 THEN (IF n < Len(s) THEN n ELSE Len(s))
                ELSE (IF Len(s) + n > 0 THEN Len(s) + n ELSE 0)
    IN SubSeq(s, 1, stop)

Init ==
    /\ topics \in TopicArgs
    /\ count \in CountArgs
    /\ max_pages \in DriverMaxPagesArgs
    /\ pc = "for_topic"
    /\ ti = 0
    /\ todo = <<>>
    /\ ai = 0
    /\ all_items = <<>>
    /\ clock = 0
    /\ collected = <<>>
    /\ failedAt = 0
    /\ artLog = <<>>
    /\ written = <<>>
    /\ links = <<>>
    /\ seen = {}
    /\ page = 0
    /\ lst = "idle"
    /\ fetches = 0
    /\ lastEvt = "none"
    /\ served = <<>>
    /\ SummarizerIdle
    /\ ExtractorIdle

\* "for topic in args.topics": the next topic; get_listing is called
TopicStarts ==
    /\ pc = "for_topic"
    /\ ti < Len(topics)
    /\ ti' = ti + 1
    /\ pc' = "get_listing"
    /\ ListingEntry
    /\ UNCHANGED <<max_pages, topics, count, todo, ai, all_items, clock,
                   collected, failedAt, artLog, written>>
    /\ UNCHANGED sumVars
    /\ UNCHANGED extVars

\* get_listing, called by main, fetches a page
M_PageFetched ==
    /\ pc = "get_listing"
    /\ \E p \in DriverPages : PageFetched(p)
    /\ UNCHANGED served
    /\ UNCHANGED mainVars
    /\ UNCHANGED sumVars
    /\ UNCHANGED extVars

\* a failed listing page that ends the whole run
M_PageFailed_Aborts ==
    /\ pc = "get_listing"
    /\ PageFailed
    /\ pc' = "crashed"
    /\ UNCHANGED served
    /\ UNCHANGED <<topics, count, ti, todo, ai, all_items, clock, collected,
                   failedAt, artLog, written>>
    /\ UNCHANGED sumVars
    /\ UNCHANGED extVars

\* get_listing, called by main, fails to fetch a page
M_PageFailed ==
    /\ pc = "get_listing"
    /\ PageFailed
    /\ UNCHANGED served
    /\ UNCHANGED mainVars
    /\ UNCHANGED sumVars
    /\ UNCHANGED extVars

\* get_listing returns and its locals are gone; articles_to_fetch = links
\* if args.count is None else links[:args.count]
ListingDone ==
    /\ pc = "get_listing"
    /\ \/ lst \in {"break", "except"}
       \/ lst = "loop" /\ ~(page < MaxAttempts(max_pages))
    /\ todo' = IF IsNone(count) THEN links ELSE Slice(links, count[1])
    /\ ai' = 0
    /\ pc' = "for_article"
    /\ collected' = Append(collected, links)
    /\ failedAt' = IF failedAt = 0 /\ lst = "except" THEN ti ELSE failedAt
    /\ links' = <<>>
    /\ seen' = {}
    /\ page' = 0
    /\ lst' = "idle"
    /\ fetches' = 0
    /\ lastEvt' = "none"
    /\ UNCHANGED <<max_pages, served, topics, count, ti, all_items, clock, artLog, written>>
    /\ UNCHANGED sumVars
    /\ UNCHANGED extVars

M_ArticleFetched ==
    /\ \E pg \in DriverArticlePages, r \in DriverRaiseAt : ArticleFetched(pg, r)
    /\ UNCHANGED listVars
    /\ UNCHANGED sumVars
    /\ UNCHANGED extVars

\* the article loop of one topic is over
TopicEnds ==
    /\ pc = "for_article"
    /\ ai = Len(todo)
    /\ pc' = "for_topic"
    /\ UNCHANGED <<topics, count, ti, todo, ai, all_items, clock, collected,
                   failedAt, artLog, written>>
    /\ UNCHANGED listVars
    /\ UNCHANGED sumVars
    /\ UNCHANGED extVars

\* the topic loop is over: save_json / save_csv is called with all_items
BatchSaved ==
    /\ pc = "for_topic"
    /\ ti = Len(topics)
    /\ written' = Append(written, all_items)
    /\ pc' = "done"
    /\ UNCHANGED <<topics, count, ti, todo, ai, all_items, clock, collected, failedAt,
                   artLog>>
    /\ UNCHANGED listVars
    /\ UNCHANGED sumVars
    /\ UNCHANGED extVars

Next ==
    \/ TopicStarts
    \/ M_PageFetched
    \/ M_PageFailed
    \/ ListingDone
    \/ M_ArticleFetched
    \/ TopicEnds
    \/ BatchSaved

Spec == Init /\ [][Next]_vars

\* the driver runs to its end: every step that is possible is taken
FairSpec == Spec /\ WF_vars(Next)

(***************************************************************************)
(* The article loop on its own: any list of URLs, any page and any         *)
(* failure for each of them.                                               *)
(***************************************************************************)
ArticleUrls == { "https://finance.yahoo.com/news/a", "https://finance.yahoo.com/news/b" }

ArtInit ==
    /\ todo \in UNION { [1..k -> ArticleUrls] : k \in 1..MaxBatch }
    /\ pc = "for_article"
    /\ ai = 0
    /\ all_items = <<>>
    /\ clock = 0
    /\ artLog = <<>>
    /\ topics = <<>>
    /\ count = None
    /\ ti = 0
    /\ collected = <<>>
    /\ failedAt = 0
    /\ written = <<>>
    /\ max_pages = None
    /\ links = <<>>
    /\ seen = {}
    /\ page = 0
    /\ lst = "idle"
    /\ fetches = 0
    /\ lastEvt = "none"
    /\ served = <<>>
    /\ SummarizerIdle
    /\ ExtractorIdle

A_ArticleFetched ==
    /\ \E pg \in ArticlePages, r \in RaiseAt : ArticleFetched(pg, r)
    /\ UNCHANGED listVars
    /\ UNCHANGED sumVars
    /\ UNCHANGED extVars

A_LoopEnds ==
    /\ pc = "for_article"
    /\ ai = Len(todo)
    /\ pc' = "loop_ended"
    /\ UNCHANGED <<topics, count, ti, todo, ai, all_items, clock, collected,
                   failedAt, artLog, written>>
    /\ UNCHANGED listVars
    /\ UNCHANGED sumVars
    /\ UNCHANGED extVars

ArtNext == A_ArticleFetched \/ A_LoopEnds

ArtSpec == ArtInit /\ [][ArtNext]_vars

(***************************************************************************)
(* get_listing on its own: one call, any page cap, any pages.              *)
(***************************************************************************)
MaxPagesArgs == { None, Some(-1), Some(0), Some(1), Some(2), Some(3) }

ListInit ==
    /\ max_pages \in MaxPagesArgs
    /\ links = <<>>
    /\ seen = {}
    /\ page = 0
    /\ lst = "loop"
    /\ fetches = 0
    /\ lastEvt = "none"
    /\ served = <<>>
    /\ topics = <<>>
    /\ count = None
    /\ pc = "get_listing"
    /\ ti = 0
    /\ todo = <<>>
    /\ ai = 0
    /\ all_items = <<>>
    /\ clock = 0
    /\ collected = <<>>
    /\ failedAt = 0
    /\ artLog = <<>>
    /\ written = <<>>
    /\ SummarizerIdle
    /\ ExtractorIdle

L_PageFetched ==
    \E p \in Pages :
        /\ PageFetched(p)
        /\ served' = Append(served, Some(Candidates(p)))
        /\ UNCHANGED mainVars
        /\ UNCHANGED sumVars
        /\ UNCHANGED extVars

L_PageFailed ==
    /\ PageFailed
    /\ served' = Append(served, None)
    /\ UNCHANGED mainVars
    /\ UNCHANGED sumVars
    /\ UNCHANGED extVars

L_Returns ==
    /\ ListingReturns
    /\ UNCHANGED served
    /\ UNCHANGED mainVars
    /\ UNCHANGED sumVars
    /\ UNCHANGED extVars

ListNext == L_PageFetched \/ L_PageFailed \/ L_Returns

ListSpec == ListInit /\ [][ListNext]_vars

(***************************************************************************)
(* Summarizer                                                              *)
(*                                                                         *)
(* A text is a run of lead whitespace characters followed by tokens; a     *)
(* token is a word w, a full stop after it when term holds, and sp         *)
(* whitespace characters after that.  Between two tokens sp >= 1.          *)
(***************************************************************************)
Vocabulary == { "Telecommunications", "telecommunications", "the" }

\* len(w)
WordLen(w) == IF w = "the" THEN 3 ELSE 18

\* w.lower()
Lower(w) == IF w = "Telecommunications" THEN "telecommunications" ELSE w

\* stopwords, line 79
Stopwords == { "the", "and", "a", "to", "of", "in", "is", "for", "on", "that",
               "with", "as", "by", "at", "it", "from", "be" }

\* the default of max_sents
DefaultMaxSents == 3

\* the number of words the neural strategy keeps
NeuralWordLimit == 1000

\* a text of fewer than 50 characters is not summarized
MinSummarizeLen == 50

EmptyText == [lead |-> 0, toks |-> <<>>]

\* F(v) with v evaluated once
Let(v, F(_)) == CHOOSE r \in { F(x) : x \in {v} } : TRUE

\* the sum of f[x] over the finite set S
RECURSIVE SumOver(_, _)
SumOver(S, f) ==
    IF S = {} THEN 0
    ELSE LET x == CHOOSE y \in S : TRUE IN f[x] + SumOver(S \ {x}, f)

\* the k-th smallest element of the set of integers S
NthOf(S, k) == CHOOSE i \in S : Cardinality({ j \in S : j <= i }) = k

\* len(text)
TextLen(t) ==
    LET T == t.toks
        sps == { T[i].sp : i \in DOMAIN T }
    IN t.lead
       + SumOver(Vocabulary,
                 [w \in Vocabulary |-> WordLen(w) * Cardinality({ i \in DOMAIN T : T[i].w = w })])
       + Cardinality({ i \in DOMAIN T : T[i].term })
       + SumOver(sps, [k \in sps |-> k * Cardinality({ i \in DOMAIN T : T[i].sp = k })])

\* text.strip()
Strip(t) ==
    IF t.toks = <<>> THEN EmptyText
    ELSE [lead |-> 0, toks |-> [t.toks EXCEPT ![Len(t.toks)].sp = 0]]

\* " ".join(text.split()[:n]): the first n words, one space between them
JoinFirstWords(t, n) ==
    LET m == IF Len(t.toks) < n THEN Len(t.toks) ELSE n IN
    [lead |-> 0,
     toks |-> [i \in 1..m |-> [w |-> t.toks[i].w, term |-> t.toks[i].term,
                               sp |-> IF i < m THEN 1 ELSE 0]]]

\* re.split(r'(?<=[.!?])\s+', text): the text is cut at every whitespace
\* run that follows a full stop, and the run is dropped
Sentences(t) ==
    LET T == t.toks
        n == Len(T)
        cuts == { i \in DOMAIN T : T[i].term /\ T[i].sp >= 1 }
        c == Cardinality(cuts)
        first(k) == IF k = 1 THEN 1 ELSE NthOf(cuts, k - 1) + 1
        last(k) == IF k <= c THEN NthOf(cuts, k) ELSE n
    IN [k \in 1..(c + 1) |->
           LET part == SubSeq(T, first(k), last(k)) IN
           [lead |-> IF k = 1 THEN t.lead ELSE 0,
            toks |-> IF k <= c THEN [part EXCEPT ![Len(part)].sp = 0] ELSE part]]

\* a + " " + b
JoinTwo(a, b) ==
    IF a.toks = <<>> THEN [lead |-> a.lead + 1 + b.lead, toks |-> b.toks]
    ELSE [lead |-> a.lead,
          toks |-> [a.toks EXCEPT ![Len(a.toks)].sp = @ + 1 + b.lead] \o b.toks]

\* " ".join(ss)
RECURSIVE JoinSentences(_)
JoinSentences(ss) ==
    IF ss = <<>> THEN EmptyText
    ELSE IF Len(ss) = 1 THEN ss[1]
    ELSE JoinTwo(JoinSentences(SubSeq(ss, 1, Len(ss) - 1)), ss[Len(ss)])

\* the words counted by freqs: not a stopword and longer than two characters
Counted(w) == Lower(w) \notin Stopwords /\ WordLen(w) > 2

\* freqs.get(lw, 0) for the text t
Freq(t, lw) ==
    Cardinality({ i \in DOMAIN t.toks : Counted(t.toks[i].w) /\ Lower(t.toks[i].w) = lw })

\* the score of the sentence s of the text t, as the fraction num / den
Score(t, s) ==
    IF s.toks = <<>> THEN [num |-> 0, den |-> 1]
    ELSE LET lws == { Lower(w) : w \in Vocabulary } IN
         [num |-> SumOver(lws, [lw \in lws |->
                      Freq(t, lw) * Cardinality({ i \in DOMAIN s.toks : Lower(s.toks[i].w) = lw })]),
          den |-> Len(s.toks)]

ScoreGreater(a, b) == a.num * b.den > b.num * a.den
ScoreEqual(a, b) == a.num * b.den = b.num * a.den

\* the set {scores.index(t) for t in top}: top holds the max_sents first
\* entries of the stable descending sort of scores, and index finds the
\* first entry equal to t
TopIdxOf(ss, sc, max_sents) ==
    LET before(j, i) == \/ ScoreGreater(sc[j], sc[i])
                        \/ ScoreEqual(sc[j], sc[i]) /\ j < i
        top == { i \in DOMAIN ss :
                     Cardinality({ j \in DOMAIN ss : before(j, i) }) < max_sents }
        index(i) == CHOOSE j \in DOMAIN ss :
                        /\ ss[j] = ss[i] /\ ScoreEqual(sc[j], sc[i])
                        /\ \A k \in 1..(j - 1) : ~(ss[k] = ss[i] /\ ScoreEqual(sc[k], sc[i]))
    IN { index(i) : i \in top }

\* scores holds, for every sentence, the sentence and its score
TopIdx(t, ss, max_sents) ==
    Let([i \in DOMAIN ss |-> Score(t, ss[i])], LAMBDA sc : TopIdxOf(ss, sc, max_sents))

\* _extractive that joins the selected sentences from the last to the first
ExtractiveOf_ReverseOrder(t, ss, max_sents) ==
    IF Len(ss) <= max_sents THEN Strip(t)
    ELSE IF \A i \in DOMAIN t.toks : ~Counted(t.toks[i].w)
    THEN JoinSentences(SubSeq(ss, 1, max_sents))
    ELSE Let(TopIdx(t, ss, max_sents), LAMBDA idx :
             Strip(JoinSentences([k \in 1..Cardinality(idx) |->
                                     ss[NthOf(idx, Cardinality(idx) + 1 - k)]])))

\* the statements of _extractive that follow sentences = re.split(...)
ExtractiveOf(t, ss, max_sents) ==
    IF Len(ss) <= max_sents THEN Strip(t)
    ELSE IF \A i \in DOMAIN t.toks : ~Counted(t.toks[i].w)
    THEN JoinSentences(SubSeq(ss, 1, max_sents))
    ELSE Let(TopIdx(t, ss, max_sents), LAMBDA idx :
             Strip(JoinSentences([k \in 1..Cardinality(idx) |-> ss[NthOf(idx, k)]])))

\* Summarizer._extractive(text, max_sents)
Extractive(t, max_sents) ==
    Let(Sentences(t), LAMBDA ss : ExtractiveOf(t, ss, max_sents))

\* not text or len(text) < 50
IsTrivial(t) == t = EmptyText \/ TextLen(t) < MinSummarizeLen

\* Summarizer.__init__(method) where transformers is installed or not and
\* the model loads or not: <<self.method, self.pipeline is set>>
SummarizerNew(method, hasTransformers, loads) ==
    IF method = "neural" /\ hasTransformers /\ loads THEN << "neural", TRUE >>
    ELSE << "extractive", FALSE >>

(***************************************************************************)
(* One summarize call on its own: any summarizer, any text.                *)
(***************************************************************************)
\* the whitespace of a text: before the first word, between two words and
\* after the last word ("\n\n" between the paragraphs of a body is gap 2)
Layouts == { [lead |-> 0, gap |-> 1, trail |-> 0],
             [lead |-> 1, gap |-> 1, trail |-> 1],
             [lead |-> 0, gap |-> 1, trail |-> 1],
             [lead |-> 0, gap |-> 2, trail |-> 0] }
PlainLayout == [lead |-> 0, gap |-> 1, trail |-> 0]

Words == [w : Vocabulary, term : BOOLEAN]

MakeText(ws, lay) ==
    [lead |-> lay.lead,
     toks |-> [i \in DOMAIN ws |-> [w |-> ws[i].w, term |-> ws[i].term,
                                    sp |-> IF i < Len(ws) THEN lay.gap ELSE lay.trail]]]

\* three short sentences, then words without a full stop: one word less
\* than the neural strategy keeps
Filler == [i \in 1..(NeuralWordLimit - 1) |-> [w |-> "the", term |-> i <= 3]]

ShortTexts == { MakeText(ws, lay) : ws \in SeqsUpTo(Words, MaxWords), lay \in Layouts }
LongTexts == { MakeText(Filler \o ws, PlainLayout) : ws \in SeqsUpTo(Words, MaxLongTail) }

\* what the backend returns when it returns a summary
NeuralSummary == MakeText(<< [w |-> "Telecommunications", term |-> TRUE] >>, PlainLayout)

SumInit ==
    /\ \E method \in {"extractive", "neural"}, hasTransformers \in BOOLEAN, loads \in BOOLEAN :
           /\ s_method = SummarizerNew(method, hasTransformers, loads)[1]
           /\ s_pipeline = SummarizerNew(method, hasTransformers, loads)[2]
    /\ s_text \in { Some(t) : t \in ShortTexts \cup LongTexts }
    /\ s_pc = "called"
    /\ s_result = None
    /\ s_backend = "none"
    /\ max_pages = None
    /\ links = <<>>
    /\ seen = {}
    /\ page = 0
    /\ lst = "idle"
    /\ fetches = 0
    /\ lastEvt = "none"
    /\ served = <<>>
    /\ topics = <<>>
    /\ count = None
    /\ pc = "summarize"
    /\ ti = 0
    /\ todo = <<>>
    /\ ai = 0
    /\ all_items = <<>>
    /\ clock = 0
    /\ collected = <<>>
    /\ failedAt = 0
    /\ artLog = <<>>
    /\ written = <<>>
    /\ ExtractorIdle

\* self.method == "neural" and self.pipeline
UsesNeural == s_method = "neural" /\ s_pipeline

\* the text the pipeline is called with: at most 1000 words of the argument
\* (the local variable text is reassigned)
NeuralInput(t) ==
    IF Len(t.toks) > NeuralWordLimit THEN JoinFirstWords(t, NeuralWordLimit) ELSE t

\* summarize returns r
SummarizeReturns(r, backend) ==
    /\ s_result' = Some(r)
    /\ s_backend' = backend
    /\ s_pc' = "returned"
    /\ UNCHANGED <<s_method, s_pipeline, s_text>>
    /\ UNCHANGED listVars
    /\ UNCHANGED mainVars
    /\ UNCHANGED extVars

\* if not text or len(text) < 50: return text[:200] if text else "";
\* text[:200] is the whole of a text of fewer than 50 characters
S_Trivial ==
    /\ s_pc = "called"
    /\ IsTrivial(s_text[1])
    /\ SummarizeReturns(IF s_text[1] = EmptyText THEN EmptyText ELSE s_text[1], "none")

\* the extractive strategy is active
S_Extractive ==
    /\ s_pc = "called"
    /\ ~IsTrivial(s_text[1])
    /\ ~UsesNeural
    /\ SummarizeReturns(Extractive(s_text[1], DefaultMaxSents), "none")

\* the neural strategy is active and the backend returns a summary
S_NeuralSummary ==
    /\ s_pc = "called"
    /\ ~IsTrivial(s_text[1])
    /\ UsesNeural
    /\ SummarizeReturns(NeuralSummary, "summary")

\* the neural strategy is active and the backend returns an empty result
S_NeuralEmpty ==
    /\ s_pc = "called"
    /\ ~IsTrivial(s_text[1])
    /\ UsesNeural
    /\ SummarizeReturns(Extractive(NeuralInput(s_text[1]), DefaultMaxSents), "empty")

\* the neural strategy is active and the backend raises
S_NeuralRaises ==
    /\ s_pc = "called"
    /\ ~IsTrivial(s_text[1])
    /\ UsesNeural
    /\ SummarizeReturns(Extractive(NeuralInput(s_text[1]), DefaultMaxSents), "raises")

SumNext == S_Trivial \/ S_Extractive \/ S_NeuralSummary \/ S_NeuralEmpty \/ S_NeuralRaises

SumSpec == SumInit /\ [][SumNext]_vars

(***************************************************************************)
(* extract_body                                                            *)
(*                                                                         *)
(* A page is described by the container elements it holds and by its       *)
(* paragraphs in document order.  The containers are siblings: the article *)
(* element comes first, then the caas-body div, then the main-role div,    *)
(* and the paragraphs outside of them come last.  A paragraph is described *)
(* by its text as get_text(strip=True) returns it, by the container it     *)
(* lies in ("loose": none) and by whether it lies in a script, style or    *)
(* nav element of that container.                                          *)
(***************************************************************************)
\* the selectors of line 158, in the order they are tried
Selectors == << "article", "caas-body", "main" >>

\* a paragraph is kept when its text is longer than this
MinParaLen == 20

\* a candidate body is accepted when it is longer than this
ContentThreshold == 200

\* the fallback keeps this many paragraphs
FallbackCap == 20

ParaTexts == { "p20", "p99", "p100", "p150", "p250" }
FillerText == "p21"

\* the paragraph texts that are also served inside a nav element
SkippedTexts == { "p100", "p250" }

\* len(p.get_text(strip=True))
ParaLen(x) ==
    CASE x = "p20" -> 20
      [] x = "p21" -> 21
      [] x = "p99" -> 99
      [] x = "p100" -> 100
      [] x = "p150" -> 150
      [] x = "p250" -> 250

\* the place of a paragraph's container in the document
ZoneNo(z) ==
    CASE z = "article" -> 1
      [] z = "caas-body" -> 2
      [] z = "main" -> 3
      [] OTHER -> 4

Paragraphs ==
    { [txt |-> x, zone |-> "loose", skip |-> FALSE] : x \in ParaTexts }
    \cup { [txt |-> x, zone |-> z, skip |-> FALSE] : x \in ParaTexts, z \in Range(Selectors) }
    \cup { [txt |-> x, zone |-> z, skip |-> TRUE] : x \in SkippedTexts, z \in Range(Selectors) }

InDocumentOrder(ps) ==
    \A i, j \in DOMAIN ps : i < j => ZoneNo(ps[i].zone) <= ZoneNo(ps[j].zone)

ParaLists == { ps \in SeqsUpTo(Paragraphs, MaxDocParas) : InDocumentOrder(ps) }

\* the containers that hold a paragraph of ps
ZonesOf(ps) == { ps[i].zone : i \in DOMAIN ps } \ { "loose" }

\* a run of short paragraphs outside every container, as long as the
\* fallback's cap
FillerRun == [i \in 1..FallbackCap |-> [txt |-> FillerText, zone |-> "loose", skip |-> FALSE]]

\* the pages: the containers that hold a paragraph and no other, or all
\* three containers, or one paragraph followed by the filler run
Documents ==
    { [nodes |-> ZonesOf(ps), ps |-> ps] : ps \in ParaLists }
    \cup { [nodes |-> Range(Selectors), ps |-> ps] : ps \in ParaLists }
    \cup { [nodes |-> ZonesOf(ps), ps |-> ps \o FillerRun] : ps \in SeqsUpTo(Paragraphs, 1) }

\* the elements of s at the positions K, in order
KeepAt(s, K) == [k \in 1..Cardinality(K) |-> s[NthOf(K, k)]]

\* [p.get_text(strip=True) for p in ps if len(p.get_text(strip=True)) > 20]
Retained(ps) ==
    LET kept == KeepAt(ps, { i \in DOMAIN ps : ParaLen(ps[i].txt) > MinParaLen })
    IN [k \in DOMAIN kept |-> kept[k].txt]

\* len("\n\n".join(parts))
RECURSIVE JoinedLen(_)
JoinedLen(parts) ==
    IF parts = <<>> THEN 0
    ELSE IF Len(parts) = 1 THEN ParaLen(parts[1])
    ELSE ParaLen(Head(parts)) + 2 + JoinedLen(Tail(parts))

\* a candidate that is accepted when it reaches the threshold
Accepts_AtThreshold(parts) == parts # <<>> /\ JoinedLen(parts) >= ContentThreshold

\* parts and len("\n\n".join(parts)) > 200
Accepts(parts) == parts # <<>> /\ JoinedLen(parts) > ContentThreshold

\* for tag in node.find_all(["script", "style", "nav"]): tag.decompose()
\* for the container z: the paragraphs inside such a tag leave the soup
Decomposed(soup, z) ==
    [soup EXCEPT !.ps = KeepAt(@, { i \in DOMAIN @ : ~(@[i].zone = z /\ @[i].skip) })]

\* node.find_all("p") for the container z
ParagraphsIn(soup, z) == KeepAt(soup.ps, { i \in DOMAIN soup.ps : soup.ps[i].zone = z })

\* parts[:20]
Capped(parts) == SubSeq(parts, 1, IF Len(parts) < FallbackCap THEN Len(parts) ELSE FallbackCap)

(***************************************************************************)
(* One extract_body call on its own: any page.                             *)
(***************************************************************************)
ExtInit ==
    /\ e_doc \in { Some(d) : d \in Documents }
    /\ e_soup = e_doc
    /\ e_i = 1
    /\ e_pc = "for_selector"
    /\ e_result = None
    /\ e_fallback = None
    /\ max_pages = None
    /\ links = <<>>
    /\ seen = {}
    /\ page = 0
    /\ lst = "idle"
    /\ fetches = 0
    /\ lastEvt = "none"
    /\ served = <<>>
    /\ topics = <<>>
    /\ count = None
    /\ pc = "extract_body"
    /\ ti = 0
    /\ todo = <<>>
    /\ ai = 0
    /\ all_items = <<>>
    /\ clock = 0
    /\ collected = <<>>
    /\ failedAt = 0
    /\ artLog = <<>>
    /\ written = <<>>
    /\ SummarizerIdle

\* one iteration of "for selector in [...]": the container is missing, or
\* it is cleaned and its paragraphs are accepted or not
E_SelectorTried ==
    /\ e_pc = "for_selector"
    /\ e_i <= Len(Selectors)
    /\ LET z == Selectors[e_i] IN
       IF z \notin e_soup[1].nodes
       THEN /\ e_i' = e_i + 1
            /\ UNCHANGED <<e_soup, e_pc, e_result>>
       ELSE LET cleaned == Decomposed(e_soup[1], z)
                ps == ParagraphsIn(cleaned, z)
                parts == Retained(ps)
            IN /\ e_soup' = Some(cleaned)
               /\ IF ps # <<>> /\ Accepts(parts)
                  THEN /\ e_result' = Some(parts)
                       /\ e_pc' = "returned"
                       /\ UNCHANGED e_i
                  ELSE /\ e_i' = e_i + 1
                       /\ UNCHANGED <<e_pc, e_result>>
    /\ UNCHANGED <<e_doc, e_fallback>>
    /\ UNCHANGED listVars
    /\ UNCHANGED mainVars
    /\ UNCHANGED sumVars

\* the statements after the loop: ps = soup.find_all("p") and the return
E_Fallback ==
    /\ e_pc = "for_selector"
    /\ e_i > Len(Selectors)
    /\ LET ps == e_soup[1].ps
           parts == Retained(ps)
       IN /\ e_fallback' = Some(ps)
          /\ e_result' = IF Accepts(Capped(parts)) THEN Some(Capped(parts)) ELSE None
    /\ e_pc' = "returned"
    /\ UNCHANGED <<e_doc, e_soup, e_i>>
    /\ UNCHANGED listVars
    /\ UNCHANGED mainVars
    /\ UNCHANGED sumVars

ExtNext == E_SelectorTried \/ E_Fallback

ExtSpec == ExtInit /\ [][ExtNext]_vars

(***************************************************************************)
(* Properties of get_listing.                                              *)
(***************************************************************************)
\* the article links of the pages k..m of the served sequence, in page order
\* then document order; a failed page carries none
RECURSIVE FlatLinks(_, _, _)
FlatLinks(sv, k, m) ==
    IF k > m THEN <<>>
    ELSE (IF IsNone(sv[k]) THEN <<>> ELSE sv[k][1]) \o FlatLinks(sv, k + 1, m)

\* the position of the first occurrence of u in s
FirstPos(s, u) == CHOOSE i \in DOMAIN s : s[i] = u /\ \A j \in 1..(i - 1) : s[j] # u

\* s with every element kept at its first occurrence only
FirstOccurrences(s) ==
    LET keep == { i \in DOMAIN s : \A j \in 1..(i - 1) : s[j] # s[i] }
        nth(k) == CHOOSE i \in keep : Cardinality({ j \in keep : j < i }) = k - 1
    IN [k \in 1..Cardinality(keep) |-> s[nth(k)]]

\* the page with 1-based index n was fetched successfully and carries no
\* link that an earlier page did not carry
YieldsNothingNew(sv, n) ==
    /\ ~IsNone(sv[n])
    /\ Range(sv[n][1]) \subseteq Range(FlatLinks(sv, 1, n - 1))

\* C1: the list get_listing returns holds every URL at most once, and the
\* URLs are ordered by their first occurrence in the pages served (page
\* order, then document order): a later reappearance moves nothing.
C1_DedupFirstOccurrence ==
    lst = "returned" =>
        LET flat == FlatLinks(served, 1, Len(served)) IN
        /\ \A i, j \in DOMAIN links : i # j => links[i] # links[j]
        /\ Range(links) \subseteq Range(flat)
        /\ \A i, j \in DOMAIN links :
               i < j => FirstPos(flat, links[i]) < FirstPos(flat, links[j])

\* a link of page 0 reappears on page 1 next to a new link
C1_Witness ==
    /\ lst = "returned"
    /\ Len(served) >= 2
    /\ ~IsNone(served[1]) /\ ~IsNone(served[2])
    /\ Range(served[1][1]) \cap Range(served[2][1]) # {}
    /\ Len(served[2][1]) = 2
    /\ served[2][1][1] \in Range(served[1][1])
    /\ Len(links) >= 2

\* C2: when page n is the first fetched page that yields no new link,
\* no page after n is fetched and the list is the links of pages 0..n-1.
C2_StopsAtFirstPageWithoutNewLinks ==
    \A n \in DOMAIN served :
        YieldsNothingNew(served, n) =>
            /\ Len(served) = n
            /\ lst \in {"break", "returned"}
            /\ links = FirstOccurrences(FlatLinks(served, 1, n - 1))

\* two productive pages, then a page that only repeats known links
C2_Witness ==
    /\ lst = "returned"
    /\ Len(served) = 3
    /\ YieldsNothingNew(served, 3)
    /\ served[3][1] # <<>>
    /\ Len(links) >= 2

\* C3: when the fetch of page n fails, get_listing does not raise, fetches
\* no further page and returns the links of pages 0..n-1.
C3_FetchFailureKeepsLinks ==
    \A n \in DOMAIN served :
        IsNone(served[n]) =>
            /\ Len(served) = n
            /\ lst \in {"except", "returned"}
            /\ links = FirstOccurrences(FlatLinks(served, 1, n - 1))

\* a productive page, then a failed fetch, and the call has returned
C3_Witness ==
    /\ lst = "returned"
    /\ Len(served) = 2
    /\ IsNone(served[2])
    /\ links # <<>>

(***************************************************************************)
(* Properties of fetch_article and of the article loop.                    *)
(***************************************************************************)
\* the record of an article whose fetch, extraction and summary all succeed
SuccessRecord(url, pg, now) ==
    [url |-> url,
     title |-> IF Truthy(pg.h1) THEN pg.h1 ELSE pg.og,
     description |-> pg.desc,
     published |-> pg.time,
     content |-> IF Truthy(pg.body) THEN pg.body ELSE None,
     summary |-> IF Truthy(pg.body) THEN Some(SummaryOf(pg.body[1])) ELSE None,
     scraped_at |-> now,
     error |-> None]

\* C4: the article loop ends with one record per URL in the order given; a
\* record whose fetch failed has error set, and every other record is the
\* one a run without any failure produces.
C4_ErrorIsolation ==
    /\ Len(all_items) = ai
    /\ Len(artLog) = ai
    /\ pc = "loop_ended" => ai = Len(todo)
    /\ \A i \in DOMAIN all_items :
           /\ all_items[i].url = todo[i]
           /\ Raises(artLog[i].page, artLog[i].raise) => ~IsNone(all_items[i].error)
           /\ ~Raises(artLog[i].page, artLog[i].raise) =>
                  all_items[i] = SuccessRecord(todo[i], artLog[i].page, i - 1)

\* three URLs, the second fails at the request, the others are complete
C4_Witness ==
    /\ pc = "loop_ended"
    /\ Len(all_items) = 3
    /\ artLog[2].raise = "request"
    /\ artLog[1].raise = "never" /\ artLog[3].raise = "never"
    /\ ~IsNone(all_items[1].content) /\ ~IsNone(all_items[3].content)
    /\ ~IsNone(all_items[2].error)

\* C5: a record with error present has title, description, published,
\* content and summary unset, whichever statement raised.
C5_ErrorMeansNoContentFields ==
    \A i \in DOMAIN all_items :
        ~IsNone(all_items[i].error) =>
            /\ IsNone(all_items[i].title)
            /\ IsNone(all_items[i].description)
            /\ IsNone(all_items[i].published)
            /\ IsNone(all_items[i].content)
            /\ IsNone(all_items[i].summary)

(***************************************************************************)
(* Properties of main.                                                     *)
(***************************************************************************)
\* the urls of a sequence of records
UrlsOf(items) == [i \in DOMAIN items |-> items[i].url]

\* C6: no two records of the batch handed to the writer have the same url.
C6_BatchUrlsUnique ==
    pc = "done" =>
        \A i, j \in DOMAIN written[1] :
            i # j => written[1][i].url # written[1][j].url

\* the first min(c, Len(s)) elements of s
FirstN(s, c) == [i \in 1..(IF c < Len(s) THEN c ELSE Len(s)) |-> s[i]]

\* the links to fetch for the topics k..Len(col), topic after topic
RECURSIVE ExpectedUrls(_, _, _)
ExpectedUrls(col, k, c) ==
    IF k > Len(col) THEN <<>>
    ELSE (IF IsNone(c) THEN col[k] ELSE FirstN(col[k], c[1]))
         \o ExpectedUrls(col, k + 1, c)

\* C7: the batch handed to the writer is, topic after topic in the order
\* requested, the records of the first min(count, collected) links of the
\* topic (of all its links when count is unset), in discovery order.
C7_BatchOrder ==
    (pc = "done" /\ (IsNone(count) \/ count[1] >= 0)) =>
        /\ Len(collected) = Len(topics)
        /\ UrlsOf(written[1]) = ExpectedUrls(collected, 1, count)

\* two topics with two links each and a cap of one article per topic
C7_Witness ==
    /\ pc = "done"
    /\ Len(topics) = 2
    /\ count = Some(1)
    /\ Len(collected[1]) = 2 /\ Len(collected[2]) = 2
    /\ collected[1][1] # collected[2][1]
    /\ Len(written[1]) = 2

\* C8: whatever listing pages and articles fail, main goes through every
\* requested topic and in the end has handed the batch to the writer
\* exactly once.
C8_EveryTopicThenOneWrite ==
    /\ [](Len(written) <= 1)
    /\ <>[](/\ pc = "done"
            /\ Len(collected) = Len(topics)
            /\ ti = Len(topics)
            /\ written = << all_items >>)

\* the listing of the first topic failed, the second topic was collected
\* and fetched, an article failed, and the batch was written
C8_Witness ==
    /\ pc = "done"
    /\ Len(topics) = 2
    /\ failedAt = 1
    /\ collected[2] # <<>>
    /\ Len(written) = 1
    /\ \E i \in DOMAIN written[1] : ~IsNone(written[1][i].error)
    /\ \E i \in DOMAIN written[1] : IsNone(written[1][i].error)

(***************************************************************************)
(* Properties of the summarizer.                                           *)
(***************************************************************************)
\* C9: when the neural strategy is active and the backend raises, summarize
\* returns what the extractive strategy returns for the text it was given.
C9_NeuralFallbackEqualsExtractive ==
    (s_pc = "returned" /\ s_backend = "raises") =>
        s_result = Some(Extractive(s_text[1], DefaultMaxSents))

\* C10: for a text with more sentences than the target, the extractive
\* summary has exactly the target number of sentences.
C10_ExactlyTargetSentences ==
    (/\ s_pc = "returned"
     /\ ~UsesNeural
     /\ ~IsTrivial(s_text[1])
     /\ Len(Sentences(s_text[1])) > DefaultMaxSents) =>
        Len(Sentences(s_result[1])) = DefaultMaxSents

\* the sentences out are, up to outer whitespace, the sentences of src at
\* strictly increasing positions
IsSubsequence(out, src) ==
    \E idx \in SUBSET DOMAIN src :
        /\ Cardinality(idx) = Len(out)
        /\ \A k \in DOMAIN out : Strip(out[k]) = Strip(src[NthOf(idx, k)])

\* C11: the sentences of the extractive summary are sentences of the source
\* text in the order they have in the source, whatever their scores.
C11_SummaryKeepsSourceOrder ==
    (s_pc = "returned" /\ ~UsesNeural /\ ~IsTrivial(s_text[1])) =>
        Let(Sentences(s_text[1]), LAMBDA src : IsSubsequence(Sentences(s_result[1]), src))

\* a selection out of more sentences than the target in which a sentence
\* scores higher than the selected sentence before it
C11_Witness ==
    /\ s_pc = "returned" /\ ~UsesNeural /\ ~IsTrivial(s_text[1])
    /\ Len(Sentences(s_text[1])) > DefaultMaxSents
    /\ LET out == Sentences(s_result[1]) IN
       /\ Len(out) >= 2
       /\ ScoreGreater(Score(s_text[1], out[2]), Score(s_text[1], out[1]))

\* C12: for a text with at most the target number of sentences, the
\* extractive summarize returns the text itself, leading and trailing
\* whitespace included.
C12_ShortTextUnchanged ==
    (/\ s_pc = "returned"
     /\ ~UsesNeural
     /\ Len(Sentences(s_text[1])) <= DefaultMaxSents) =>
        s_result = s_text

(***************************************************************************)
(* Properties of extract_body.                                             *)
(***************************************************************************)
\* the paragraph texts of the container z of the page doc that lie outside
\* its script, style and nav elements and are longer than 20 characters
ContainerCandidate(doc, z) ==
    IF z \notin doc.nodes THEN <<>>
    ELSE LET inside == KeepAt(doc.ps, { i \in DOMAIN doc.ps :
                                           doc.ps[i].zone = z /\ ~doc.ps[i].skip })
             long == KeepAt(inside, { i \in DOMAIN inside : ParaLen(inside[i].txt) > 20 })
         IN [k \in DOMAIN long |-> long[k].txt]

\* the first 20 of the paragraph texts of ps that are longer than 20 characters
FallbackCandidate(ps) ==
    LET long == KeepAt(ps, { i \in DOMAIN ps : ParaLen(ps[i].txt) > 20 })
    IN [k \in 1..(IF Len(long) < 20 THEN Len(long) ELSE 20) |-> long[k].txt]

\* the length of the paragraphs joined with blank lines
TotalLen(parts) ==
    SumOver(DOMAIN parts, [i \in DOMAIN parts |-> ParaLen(parts[i])])
    + 2 * (Len(parts) - 1)

\* the candidate is longer than 200 characters
ClearsThreshold(parts) == parts # <<>> /\ TotalLen(parts) > 200

\* the first candidate that clears the threshold, absent when none does
RECURSIVE FirstSuccess(_)
FirstSuccess(cands) ==
    IF cands = <<>> THEN None
    ELSE IF ClearsThreshold(Head(cands)) THEN Some(Head(cands))
    ELSE FirstSuccess(Tail(cands))

\* the candidates of the three container strategies, in the order tried
ContainerCandidates(doc) ==
    << ContainerCandidate(doc, "article"),
       ContainerCandidate(doc, "caas-body"),
       ContainerCandidate(doc, "main") >>

C17_FallbackSeesWholeDocument ==
    (e_pc = "returned" /\ ~IsNone(e_fallback)) => e_fallback[1] = e_doc[1].ps

(***************************************************************************)
(* Properties of the record fetch_article returns.                         *)
(***************************************************************************)
\* C14: no record has a summary without content: a record whose content is
\* absent, by an extraction miss or by a failure, has no summary either.
C14_NoSummaryWithoutContent ==
    \A i \in DOMAIN all_items :
        IsNone(all_items[i].content) => IsNone(all_items[i].summary)

\* one record of a page without a body, one record whose extraction
\* raised, and one record with content and summary
C14_Witness ==
    /\ \E i \in DOMAIN all_items :
           /\ artLog[i].raise = "never" /\ ~Truthy(artLog[i].page.body)
           /\ IsNone(all_items[i].content) /\ IsNone(all_items[i].error)
    /\ \E i \in DOMAIN all_items :
           /\ artLog[i].raise = "body"
           /\ IsNone(all_items[i].content) /\ ~IsNone(all_items[i].error)
    /\ \E i \in DOMAIN all_items :
           ~IsNone(all_items[i].content) /\ ~IsNone(all_items[i].summary)

(***************************************************************************)
(* Properties of the page cap, the delay and the accepted hosts of         *)
(* get_listing.                                                            *)
(***************************************************************************)
\* C15: get_listing issues at most max_pages page fetches when a cap is
\* given (0 included) and at most 100 when none is given.
C15_PageCapBoundsFetches ==
    /\ IsNone(max_pages) => fetches <= 100
    /\ (~IsNone(max_pages) /\ max_pages[1] >= 0) => fetches <= max_pages[1]

\* C16: when get_listing returns, the last thing it did was a page fetch
\* (or nothing at all), never the delay.
C16_NoDelayAfterFinalFetch ==
    lst = "returned" => lastEvt # "sleep"

\* C18: every URL get_listing has collected has the host finance.yahoo.com.
C18_OnlyExpectedHost ==
    \A i \in DOMAIN links : HostOf(links[i]) = "finance.yahoo.com"

====
